---- MODULE Spec2Model ----
(***************************************************************************)
(* Model of video/out/hwdec/hwdec_vaapi.c: the VAAPI hardware-surface      *)
(* interop layer (native display acquisition, device initialization,       *)
(* format probing, and the per-frame surface mapper).                      *)
(*                                                                         *)
(* The build modelled is the one with VA_CHECK_VERSION(1, 1, 0) true, so   *)
(* the surface-export path of mapper_map/mapper_unmap is compiled in.      *)
(***************************************************************************)
EXTENDS Integers, Sequences, FiniteSets, TLC

\* ------------------------------------------------------------------ bounds
\* mapper_map calls explored on one mapping session
MaxMaps == 2
\* objects (file descriptors) in one exported surface descriptor
MaxObjects == 2
\* length of the driver-reported list of candidate sw formats
MaxCand == 2

VARIABLES
    p_owner,        \* struct priv_owner of the hwdec (the device context)
    pc,             \* position of init(): which stage runs next
    hwdec_devices,  \* hw->devs: TRUE when p->ctx->hwctx is in the device registry
    dwf,            \* determine_working_formats' locals: fc, n, formats
    probed,         \* determine_working_formats: what happened to each candidate tried
    mapper,         \* the mapping session: "none", "live" or "freed"
    p,              \* struct priv of the mapping session
    tex,            \* mapper->tex[0..2]
    closes,         \* per exported fd (fds are numbered 1, 2, ...): number of close() calls
    calls,          \* number of mapper_map calls made so far
    trace,          \* the calls and log messages made by the most recent operation
    last,           \* the most recent operation: its name and result
    protocol,       \* TRUE while no mapper_map was issued right after a mapper_map
    ra,             \* create_native_va_display: the renderer's native resources
    disp,           \* create_native_va_display: its result and the providers it tried
    compiled        \* interop_inits[]: the initializers the build has (HAVE_GL, HAVE_VULKAN)

vars == <<p_owner, pc, hwdec_devices, dwf, probed, mapper, p, tex, closes,
          calls, trace, last, protocol, ra, disp, compiled>>

\* ------------------------------------------------------------ vocabulary
\* VA_INVALID_ID is 0xffffffff; as a 32-bit int that is -1
VA_INVALID_ID == -1
VA_STATUS_SUCCESS == "VA_STATUS_SUCCESS"
VA_STATUS_ERROR_UNIMPLEMENTED == "VA_STATUS_ERROR_UNIMPLEMENTED"
VA_STATUS_ERROR_OPERATION_FAILED == "VA_STATUS_ERROR_OPERATION_FAILED"
VA_FOURCC_YV12 == "YV12"
VA_FOURCC_NV12 == "NV12"
Fourccs == {VA_FOURCC_YV12, VA_FOURCC_NV12}

\* mapper->tex[]: a function on the C indices 0..2; a NULL texture is 0
NoTex == [i \in 0..2 |-> 0]
\* the texture orders an interop backend may produce
RawTex == {[i \in 0..2 |-> i + 1], [i \in 0..2 |-> 6 - i]}

\* F applied to the value of v, v being evaluated once
Bind(v, F(_)) == CHOOSE y \in {F(x) : x \in {v}} : TRUE

Ev(op, arg) == [op |-> op, arg |-> arg]
Log(m, op, arg) == [m EXCEPT !.trace = Append(@, Ev(op, arg))]
Ops(t) == {t[i].op : i \in DOMAIN t}
StatusOf(ok) == IF ok THEN VA_STATUS_SUCCESS ELSE VA_STATUS_ERROR_OPERATION_FAILED

\* a zero-initialised struct priv (talloc_zero)
PrivZero ==
    [surface_acquired |-> FALSE, buffer_acquired |-> FALSE,
     esh_not_implemented |-> FALSE,
     current_image |-> [image_id |-> 0, buf |-> 0, fourcc |-> VA_FOURCC_NV12],
     desc |-> [objects |-> <<>>, fourcc |-> VA_FOURCC_NV12]]

\* the working state threaded through one handler: the session, the textures,
\* the fd table, the handler's locals (status, goto, ret) and what it did
Frame(priv, t, cl) ==
    [p |-> priv, tex |-> t, closes |-> cl, trace |-> <<>>,
     status |-> VA_STATUS_SUCCESS, goto |-> "none", ok |-> TRUE, ret |-> 0,
     path |-> "none", raw |-> NoTex]

\* ------------------------------------------------------ interop backend
\* p_owner->interop_unmap(mapper): releases the renderer-side textures
interop_unmap(m) ==
    [Log(m, "interop_unmap", 0) EXCEPT !.tex = NoTex]

\* p_owner->interop_map(mapper): imports the exported fds as textures
interop_map(m, in) ==
    IF in.interop_map
    THEN [Log(m, "interop_map", 1) EXCEPT !.tex = in.raw, !.raw = in.raw, !.ok = TRUE]
    ELSE [Log(m, "interop_map", 0) EXCEPT !.ok = FALSE]

\* p_owner->interop_map_legacy(mapper, &buffer_info, drm_fmts)
interop_map_legacy(m, in) ==
    IF in.legacy_import
    THEN [Log(m, "interop_map_legacy", 1) EXCEPT !.tex = in.raw, !.raw = in.raw, !.ok = TRUE]
    ELSE [Log(m, "interop_map_legacy", 0) EXCEPT !.ok = FALSE]

\* MPSWAP(struct ra_tex*, mapper->tex[i], mapper->tex[j])
MPSWAP(t, i, j) == [t EXCEPT ![i] = t[j], ![j] = t[i]]

\* ---------------------------------------------------------- mapper_unmap
\* for (n < desc.num_objects) close(desc.objects[n].fd)
close_objects(m) ==
    LET objs == m.p.desc.objects
    IN  [m EXCEPT
           !.closes = [fd \in DOMAIN @ |->
                         @[fd] + Cardinality({k \in DOMAIN objs : objs[k] = fd})],
           !.trace = @ \o [k \in DOMAIN objs |-> Ev("close", objs[k])]]

release_surface(m) ==
    IF m.p.surface_acquired
    THEN [close_objects(m) EXCEPT !.p.surface_acquired = FALSE]
    ELSE m

\* mutant: the buffer handle is released but buffer_acquired is left set
release_buffer_keeps_flag(m) ==
    IF m.p.buffer_acquired
    THEN Log(m, "vaReleaseBufferHandle", m.p.current_image.buf)
    ELSE m

release_buffer(m) ==
    IF m.p.buffer_acquired
    THEN [Log(m, "vaReleaseBufferHandle", m.p.current_image.buf)
            EXCEPT !.p.buffer_acquired = FALSE]
    ELSE m

\* mutant: the image is destroyed without testing image_id
destroy_image_unguarded(m) ==
    [Log(m, "vaDestroyImage", m.p.current_image.image_id)
       EXCEPT !.p.current_image.image_id = VA_INVALID_ID]

destroy_image(m) ==
    IF m.p.current_image.image_id # VA_INVALID_ID
    THEN [Log(m, "vaDestroyImage", m.p.current_image.image_id)
            EXCEPT !.p.current_image.image_id = VA_INVALID_ID]
    ELSE m

\* mutant: the native resources are released before the interop unmap
mapper_unmap_releases_first(m) ==
    LET m1 == release_surface(m)
        m2 == release_buffer(m1)
        m3 == destroy_image(m2)
    IN  interop_unmap(m3)

mapper_unmap(m) ==
    LET m1 == interop_unmap(m)
        m2 == release_surface(m1)
        m3 == release_buffer(m2)
    IN  destroy_image(m3)

\* ------------------------------------------------------------ mapper_map
\* vaExportSurfaceHandle(..., &p->desc): on success the descriptor holds
\* num_objects freshly opened fds, which this component now owns
vaExportSurfaceHandle(m, in) ==
    LET base == Len(m.closes)
        objs == [k \in 1..in.num_objects |-> base + k]
        m1 == Log(m, "vaExportSurfaceHandle", 0)
    IN  IF in.export = VA_STATUS_SUCCESS
        THEN [m1 EXCEPT !.status = VA_STATUS_SUCCESS,
                        !.p.desc = [objects |-> objs, fourcc |-> in.desc_fourcc],
                        !.closes = @ \o [k \in 1..in.num_objects |-> 0]]
        ELSE [m1 EXCEPT !.status = in.export]

\* if (p->desc.fourcc == VA_FOURCC_YV12) MPSWAP(tex[1], tex[2])
swap_export(m) ==
    IF m.p.desc.fourcc = VA_FOURCC_YV12
    THEN [m EXCEPT !.tex = MPSWAP(@, 1, 2)]
    ELSE m

\* mutant: the sticky flag is never consulted
export_always_attempted(m) == FALSE

\* if (p->esh_not_implemented) goto esh_failed;
export_known_unimplemented(m) == m.p.esh_not_implemented

\* mutant: every failed export disables the export path for the session
export_path_any_failure_sticky(m, o, in) ==
    IF export_known_unimplemented(m)
    THEN [m EXCEPT !.goto = "esh_failed"]
    ELSE
      LET m1 == vaExportSurfaceHandle(m, in)
      IN  IF m1.status # VA_STATUS_SUCCESS
          THEN
            \* CHECK_VA_STATUS_LEVEL reports the status it was given
            LET m2 == Log(m1, IF o.probing_formats
                              THEN "MSGL_V:vaExportSurfaceHandle"
                              ELSE "MSGL_ERR:vaExportSurfaceHandle", m1.status)
            IN  [m2 EXCEPT
                   !.p.esh_not_implemented =
                       TRUE,
                   !.goto = "esh_failed"]
          ELSE
            \* vaSyncSurface's return value is not assigned to status
            LET m2 == Log(m1, "vaSyncSurface", IF in.sync THEN 1 ELSE 0)
                m3 == IF m2.status # VA_STATUS_SUCCESS
                      THEN Log(m2, "MSGL_ERR:vaSyncSurface", 0)
                      ELSE m2
                m4 == [m3 EXCEPT !.p.surface_acquired = TRUE]
                m5 == interop_map(m4, in)
            IN  IF ~m5.ok
                THEN [m5 EXCEPT !.goto = "esh_failed"]
                ELSE [swap_export(m5) EXCEPT !.goto = "return", !.ret = 0,
                                             !.path = "export"]

\* the export path up to "return 0" or "goto esh_failed"
export_path(m, o, in) ==
    IF export_known_unimplemented(m)
    THEN [m EXCEPT !.goto = "esh_failed"]
    ELSE
      LET m1 == vaExportSurfaceHandle(m, in)
      IN  IF m1.status # VA_STATUS_SUCCESS
          THEN
            \* CHECK_VA_STATUS_LEVEL reports the status it was given
            LET m2 == Log(m1, IF o.probing_formats
                              THEN "MSGL_V:vaExportSurfaceHandle"
                              ELSE "MSGL_ERR:vaExportSurfaceHandle", m1.status)
            IN  [m2 EXCEPT
                   !.p.esh_not_implemented =
                       IF m1.status = VA_STATUS_ERROR_UNIMPLEMENTED THEN TRUE ELSE @,
                   !.goto = "esh_failed"]
          ELSE
            \* vaSyncSurface's return value is not assigned to status
            LET m2 == Log(m1, "vaSyncSurface", IF in.sync THEN 1 ELSE 0)
                m3 == IF m2.status # VA_STATUS_SUCCESS
                      THEN Log(m2, "MSGL_ERR:vaSyncSurface", 0)
                      ELSE m2
                m4 == [m3 EXCEPT !.p.surface_acquired = TRUE]
                m5 == interop_map(m4, in)
            IN  IF ~m5.ok
                THEN [m5 EXCEPT !.goto = "esh_failed"]
                ELSE [swap_export(m5) EXCEPT !.goto = "return", !.ret = 0,
                                             !.path = "export"]

\* mutant: the fds are closed but surface_acquired is left set
esh_failed_keeps_flag(m) ==
    IF m.p.surface_acquired THEN close_objects(m) ELSE m

\* esh_failed: close the exported fds if they were acquired
esh_failed(m) ==
    IF m.p.surface_acquired
    THEN [close_objects(m) EXCEPT !.p.surface_acquired = FALSE]
    ELSE m

\* vaDeriveImage(display, surface, &p->current_image)
vaDeriveImage(m, in) ==
    IF in.derive
    THEN [Log(m, "vaDeriveImage", 1) EXCEPT
            !.status = VA_STATUS_SUCCESS,
            !.p.current_image = [image_id |-> in.image_id, buf |-> in.image_id,
                                 fourcc |-> in.image_fourcc]]
    ELSE [Log(m, "vaDeriveImage", 0) EXCEPT !.status = VA_STATUS_ERROR_OPERATION_FAILED]

\* vaAcquireBufferHandle(display, va_image->buf, &buffer_info)
vaAcquireBufferHandle(m, in) ==
    [Log(m, "vaAcquireBufferHandle", IF in.acquire THEN 1 ELSE 0)
       EXCEPT !.status = StatusOf(in.acquire)]

\* mutant: the legacy path tests the exported descriptor's tag
swap_legacy_by_desc(m) ==
    IF m.p.desc.fourcc = VA_FOURCC_YV12
    THEN [m EXCEPT !.tex = MPSWAP(@, 1, 2)]
    ELSE m

\* if (va_image->format.fourcc == VA_FOURCC_YV12) MPSWAP(tex[1], tex[2])
swap_legacy(m) ==
    IF m.p.current_image.fourcc = VA_FOURCC_YV12
    THEN [m EXCEPT !.tex = MPSWAP(@, 1, 2)]
    ELSE m

\* mutant: without a legacy map function the map fails without unmapping
legacy_path_fails_at_once(m, o, in) ==
    IF o.interop_map_legacy
    THEN
      LET m1 == vaDeriveImage(m, in)
      IN  IF m1.status # VA_STATUS_SUCCESS
          THEN [Log(m1, "MSGL_ERR:vaDeriveImage", 0) EXCEPT !.goto = "err"]
          ELSE
            LET m2 == vaAcquireBufferHandle(m1, in)
            IN  IF m2.status # VA_STATUS_SUCCESS
                THEN [Log(m2, "MSGL_ERR:vaAcquireBufferHandle", 0) EXCEPT !.goto = "err"]
                ELSE
                  LET m3 == [m2 EXCEPT !.p.buffer_acquired = TRUE]
                      m4 == interop_map_legacy(m3, in)
                  IN  IF ~m4.ok
                      THEN [m4 EXCEPT !.goto = "err"]
                      ELSE [swap_legacy(m4) EXCEPT !.goto = "return", !.ret = 0,
                                                   !.path = "legacy"]
    ELSE [m EXCEPT !.goto = "err"]

\* the legacy path up to "return 0" or "goto err"
legacy_path(m, o, in) ==
    IF o.interop_map_legacy
    THEN
      LET m1 == vaDeriveImage(m, in)
      IN  IF m1.status # VA_STATUS_SUCCESS
          THEN [Log(m1, "MSGL_ERR:vaDeriveImage", 0) EXCEPT !.goto = "err"]
          ELSE
            LET m2 == vaAcquireBufferHandle(m1, in)
            IN  IF m2.status # VA_STATUS_SUCCESS
                THEN [Log(m2, "MSGL_ERR:vaAcquireBufferHandle", 0) EXCEPT !.goto = "err"]
                ELSE
                  LET m3 == [m2 EXCEPT !.p.buffer_acquired = TRUE]
                      m4 == interop_map_legacy(m3, in)
                  IN  IF ~m4.ok
                      THEN [m4 EXCEPT !.goto = "err"]
                      ELSE [swap_legacy(m4) EXCEPT !.goto = "return", !.ret = 0,
                                                   !.path = "legacy"]
    ELSE [mapper_unmap(m) EXCEPT !.goto = "err"]

\* mutant: the failure is reported as fatal also while probing
err_always_fatal(m, o) ==
    [Log(m, "MP_FATAL:mapping failed", 0)
       EXCEPT !.ret = -1, !.path = "none", !.raw = NoTex]

\* err: report (fatal unless probing) and return -1
err(m, o) ==
    [(IF ~o.probing_formats THEN Log(m, "MP_FATAL:mapping failed", 0) ELSE m)
       EXCEPT !.ret = -1, !.path = "none", !.raw = NoTex]

mapper_map(m, o, in) ==
    LET a == export_path(m, o, in)
    IN  IF a.goto = "return"
        THEN a
        ELSE LET b == legacy_path(esh_failed(a), o, in)
             IN  IF b.goto = "return" THEN b ELSE err(b, o)

\* ----------------------------------------------------------- mapper_init
IMGFMT_NONE == "IMGFMT_NONE"
ImgFmts == {"IMGFMT_420P", "IMGFMT_NV12"}
AvFmts == {"AV_PIX_FMT_YUV420P", "AV_PIX_FMT_NV12", "AV_PIX_FMT_UNKNOWN"}

\* p_owner->formats is a 0-terminated array; NULL is the empty sequence.
\* formats[k] here is the C formats[k - 1].
RECURSIVE check_fmt_from(_, _, _)
check_fmt_from(formats, k, fmt) ==
    IF k > Len(formats) \/ formats[k] = IMGFMT_NONE
    THEN FALSE
    ELSE IF formats[k] = fmt
         THEN TRUE
         ELSE check_fmt_from(formats, k + 1, fmt)

\* mutant: only formats[0] is compared
check_fmt_first_only(o, fmt) ==
    o.formats # <<>> /\ o.formats[1] # IMGFMT_NONE /\ o.formats[1] = fmt

check_fmt(o, fmt) == check_fmt_from(o.formats, 1, fmt)

\* ra_get_imgfmt_desc(ra, imgfmt, &desc): no descriptor exists for "no format"
ra_get_imgfmt_desc(fmt, known) == fmt # IMGFMT_NONE /\ known

\* the format check of mapper_init: check_fmt is evaluated only when
\* probing_formats is false (short-circuit &&)
format_check(m, o, fmt) ==
    IF o.probing_formats
    THEN m
    ELSE LET m1 == Log(m, "check_fmt", 0)
         IN  IF ~check_fmt(o, fmt)
             THEN [Log(m1, "MP_FATAL:unsupported VA image format", 0) EXCEPT !.ret = -1]
             ELSE m1

mapper_init(m, o, in) ==
    LET m0 == [m EXCEPT !.p.current_image.buf = VA_INVALID_ID,
                        !.p.current_image.image_id = VA_INVALID_ID]
    IN  IF ~ra_get_imgfmt_desc(in.fmt, in.desc_known)
        THEN [m0 EXCEPT !.ret = -1]
        ELSE IF o.interop_init /\ ~in.interop_init_ok
             THEN [Log(m0, "interop_init", 0) EXCEPT !.ret = -1]
             ELSE format_check(IF o.interop_init THEN Log(m0, "interop_init", 1) ELSE m0,
                               o, in.fmt)

\* ----------------------------------------------- create_native_va_display
NULL == "NULL"

\* Display *x11 = ra_get_native_resource(ra, "x11"); x11 ? vaGetDisplay(x11) : NULL
create_x11_va_display(env) ==
    IF env.x11 THEN (IF env.open["x11"] THEN "x11" ELSE NULL) ELSE NULL

create_wayland_va_display(env) ==
    IF env.wl THEN (IF env.open["wayland"] THEN "wayland" ELSE NULL) ELSE NULL

\* !params || params->render_fd < 0 ? NULL : vaGetDisplayDRM(params->render_fd)
create_drm_va_display(env) ==
    IF env.drm_params = NULL \/ env.drm_params = "render_fd<0"
    THEN NULL
    ELSE (IF env.open["drm"] THEN "drm" ELSE NULL)

\* mutant: the table lists Wayland before X11
create_native_cbs_wayland_first(env) ==
    SelectSeq(<<"wayland", "x11", "drm">>, LAMBDA name : name \in env.have)

\* create_native_cbs[]: the providers compiled in, in the order of the table
Providers == <<"x11", "wayland", "drm">>
create_native_cbs(env) == SelectSeq(Providers, LAMBDA name : name \in env.have)

create(name, env) ==
    CASE name = "x11" -> create_x11_va_display(env)
      [] name = "wayland" -> create_wayland_va_display(env)
      [] OTHER -> create_drm_va_display(env)

RECURSIVE create_native_loop(_, _, _)
create_native_loop(cbs, k, env) ==
    IF k > Len(cbs)
    THEN [display |-> NULL, tried |-> <<>>]
    ELSE LET display == create(cbs[k], env)
         IN  IF display # NULL
             THEN [display |-> display, tried |-> <<cbs[k]>>]
             ELSE LET rest == create_native_loop(cbs, k + 1, env)
                  IN  [display |-> rest.display, tried |-> <<cbs[k]>> \o rest.tried]

create_native_va_display(env) == create_native_loop(create_native_cbs(env), 1, env)

\* ------------------------------------------------------------------- init
\* interop_inits[]: the initializers compiled in, OpenGL before Vulkan
InteropInits == <<"vaapi_gl_init", "vaapi_vk_init">>
interop_inits(have) == SelectSeq(InteropInits, LAMBDA name : name \in have)

\* interop_inits[i](hw): an initializer either fails and leaves p_owner alone,
\* or installs its functions (init, uninit, map, unmap and, if it has one, the
\* legacy map) and returns true
vaapi_interop_init(name, out, m) ==
    IF out[name].ret
    THEN [Log(m, name, 1) EXCEPT
            !.o.interop_init = TRUE, !.o.interop_map = TRUE,
            !.o.interop_unmap = TRUE,
            !.o.interop_map_legacy = out[name].legacy,
            !.o.interop = name, !.ok = TRUE]
    ELSE [Log(m, name, 0) EXCEPT !.ok = FALSE]

\* mutant: the loop does not stop at the first initializer that returns true
RECURSIVE interop_loop_no_break(_, _, _, _)
interop_loop_no_break(inits, i, out, m) ==
    IF i > Len(inits)
    THEN m
    ELSE interop_loop_no_break(inits, i + 1, out, vaapi_interop_init(inits[i], out, m))

\* for (i = 0; interop_inits[i]; i++) if (interop_inits[i](hw)) break;
RECURSIVE interop_loop(_, _, _, _)
interop_loop(inits, i, out, m) ==
    IF i > Len(inits)
    THEN m
    ELSE LET m1 == vaapi_interop_init(inits[i], out, m)
         IN  IF m1.ok THEN m1 ELSE interop_loop(inits, i + 1, out, m1)

\* mutant: init goes on without an interop backend
interop_never_missing(o) == FALSE

\* if (!p->interop_map || !p->interop_unmap) return -1;
interop_missing(o) == ~o.interop_map \/ ~o.interop_unmap

\* mutant: only the NULL test is made
formats_null_only(o) == o.formats = <<>>

\* if (!p->formats || !p->formats[0]) return -1;
formats_missing(o) == o.formats = <<>> \/ o.formats[1] = IMGFMT_NONE

\* ---------------------------------------------- determine_working_formats
\* mp_image_from_av_frame(): hw_subfmt is the mpv format of the frames
\* context's sw_format; a pixel format mpv does not know has none
pixfmt2imgfmt(f) ==
    CASE f = "AV_PIX_FMT_YUV420P" -> "IMGFMT_420P"
      [] f = "AV_PIX_FMT_NV12" -> "IMGFMT_NV12"
      [] OTHER -> IMGFMT_NONE

\* ra_hwdec_mapper_create(hw, &surface->params): NULL when mapper_init fails
ra_hwdec_mapper_create(o, s, ii) ==
    mapper_init(Frame(PrivZero, NoTex, <<>>), o,
                [fmt |-> s.hw_subfmt, desc_known |-> ii.desc_known,
                 interop_init_ok |-> ii.interop_init_ok])

\* ra_hwdec_mapper_map(mapper, surface): map, and unmap again on failure
ra_hwdec_mapper_map(m, o, in) ==
    Bind(mapper_map(m, o, [image_id |-> 1] @@ in),
         LAMBDA r : IF r.ret < 0 THEN mapper_unmap(r) ELSE r)

\* ra_hwdec_mapper_free(&mapper): unmap and uninit
ra_hwdec_mapper_free(m, o) ==
    Bind(mapper_unmap(m),
         LAMBDA r : IF o.interop_init THEN Log(r, "interop_uninit", 0) ELSE r)

try_format(o, s, ii, in) ==
    Bind(ra_hwdec_mapper_create(o, s, ii),
         LAMBDA mapper0 :
            IF mapper0.ret < 0
            THEN [ok |-> FALSE, trace |-> mapper0.trace]
            ELSE Bind(ra_hwdec_mapper_map(mapper0, o, in),
                      LAMBDA r : [ok |-> r.ret >= 0,
                                  trace |-> ra_hwdec_mapper_free(r, o).trace]))

\* the steps between "fref = av_hwframe_ctx_alloc()" and the validity test of
\* the test surface; each failure is a "goto err"
AllocSteps == {"av_hwframe_ctx_alloc", "av_hwframe_ctx_init", "av_frame_alloc",
               "av_hwframe_get_buffer", "mp_image_params_valid"}

\* mutant: a candidate whose test surface cannot be allocated ends the loop
probe_candidate_breaks(d, o, alloc, ii, in) ==
    LET s == [hw_subfmt |-> pixfmt2imgfmt(d.fc[d.n + 1])]
        t == try_format(o, s, ii, in)
    IN  IF alloc # "ok"
        THEN [d |-> [d EXCEPT !.n = Len(d.fc)], alloc |-> FALSE, ok |-> FALSE,
              trace |-> <<Ev(alloc, 0)>>]
        ELSE [d |-> [d EXCEPT !.n = @ + 1,
                              !.formats = IF t.ok THEN Append(@, s.hw_subfmt) ELSE @],
              alloc |-> TRUE, ok |-> t.ok, trace |-> t.trace]

\* one iteration of the loop over fc->valid_sw_formats[n]
probe_candidate(d, o, alloc, ii, in) ==
    LET s == [hw_subfmt |-> pixfmt2imgfmt(d.fc[d.n + 1])]
        t == try_format(o, s, ii, in)
    IN  IF alloc # "ok"
        THEN [d |-> [d EXCEPT !.n = @ + 1], alloc |-> FALSE, ok |-> FALSE,
              trace |-> <<Ev(alloc, 0)>>]
        ELSE [d |-> [d EXCEPT !.n = @ + 1,
                              !.formats = IF t.ok THEN Append(@, s.hw_subfmt) ELSE @],
              alloc |-> TRUE, ok |-> t.ok, trace |-> t.trace]

\* ------------------------------------------------------------ environment
\* what the driver and the interop backend may answer to one mapper_map call;
\* answers that are never asked for (the descriptor of a failed export, the
\* buffer handle of an image that was not derived, ...) are fixed, so that each
\* behaviour of the environment is enumerated once
ExportAnswers ==
    [export : {VA_STATUS_SUCCESS}, num_objects : 1..MaxObjects,
     desc_fourcc : Fourccs, sync : BOOLEAN, interop_map : BOOLEAN]
    \cup
    [export : {VA_STATUS_ERROR_UNIMPLEMENTED, VA_STATUS_ERROR_OPERATION_FAILED},
     num_objects : {1}, desc_fourcc : {VA_FOURCC_NV12}, sync : {TRUE},
     interop_map : {FALSE}]

LegacyAnswers ==
    [derive : {FALSE}, image_fourcc : {VA_FOURCC_NV12}, acquire : {FALSE},
     legacy_import : {FALSE}]
    \cup
    [derive : {TRUE}, image_fourcc : Fourccs, acquire : {FALSE},
     legacy_import : {FALSE}]
    \cup
    [derive : {TRUE}, image_fourcc : Fourccs, acquire : {TRUE},
     legacy_import : BOOLEAN]

MapInputs ==
    {a @@ b @@ [raw |-> r] : a \in ExportAnswers, b \in LegacyAnswers, r \in RawTex}

\* the answers one mapper_map call on session priv asks for: the export is
\* not called once esh_not_implemented is set, the legacy calls are not made
\* after a successful export-path import or without a legacy map function,
\* and no textures are produced unless an import succeeds
Asked(in, priv, o) ==
    /\ priv.esh_not_implemented => in.export = VA_STATUS_ERROR_UNIMPLEMENTED
    /\ (in.interop_map \/ ~o.interop_map_legacy) => ~in.derive
    /\ (~in.interop_map /\ ~in.legacy_import) => in.raw = [i \in 0..2 |-> i + 1]

\* what mapper_init's callees may answer
InitInputs ==
    [fmt : ImgFmts \cup {IMGFMT_NONE}, desc_known : BOOLEAN, interop_init_ok : BOOLEAN]

\* a zero-initialised struct priv_owner
OwnerZero ==
    [interop_init |-> FALSE, interop_map |-> FALSE, interop_unmap |-> FALSE,
     interop_map_legacy |-> FALSE, interop |-> "none",
     display |-> NULL, ctx |-> NULL,
     probing_formats |-> FALSE, formats |-> <<>>]

DwfZero == [fc_null |-> FALSE, fc |-> <<>>, n |-> 0, formats |-> <<>>]
RaNone == [have |-> {}, x11 |-> FALSE, wl |-> FALSE, drm_params |-> NULL,
           open |-> [name \in {"x11", "wayland", "drm"} |-> FALSE]]
DispNone == [display |-> NULL, tried |-> <<>>, done |-> FALSE]
LastNone == [op |-> "none", ret |-> 0, path |-> "none", raw |-> NoTex,
             fmt |-> IMGFMT_NONE]

\* ------------------------------------------------- mapping session actions
\* ra_hwdec_mapper_create(): allocate the session and call mapper_init; a
\* session whose init fails is freed at once
MapperInit ==
    /\ pc = "ready" /\ mapper = "none"
    /\ \E in \in InitInputs :
         LET r == mapper_init(Frame(PrivZero, NoTex, closes), p_owner, in)
         IN  /\ mapper' = IF r.ret = 0 THEN "live" ELSE "none"
             /\ p' = IF r.ret = 0 THEN r.p ELSE PrivZero
             /\ tex' = r.tex
             /\ trace' = r.trace
             /\ last' = [LastNone EXCEPT !.op = "mapper_init", !.ret = r.ret,
                                         !.fmt = in.fmt]
    /\ UNCHANGED <<p_owner, pc, hwdec_devices, dwf, probed, closes, calls,
                   protocol, ra, disp, compiled>>

\* The caller contract is one map, then unmap, then the next map. A map issued
\* right after a map breaks it; the model follows a session through its first
\* breach (protocol becomes FALSE) and issues no further map after it.
MapperMap ==
    /\ pc = "ready" /\ mapper = "live" /\ calls < MaxMaps /\ protocol
    /\ \E in \in {i \in MapInputs : Asked(i, p, p_owner)} :
         LET r == mapper_map(Frame(p, tex, closes), p_owner,
                             [image_id |-> calls + 1] @@ in)
         IN  /\ p' = r.p
             /\ tex' = r.tex
             /\ closes' = r.closes
             /\ trace' = r.trace
             /\ last' = [LastNone EXCEPT !.op = "mapper_map", !.ret = r.ret,
                                         !.path = r.path, !.raw = r.raw]
    /\ calls' = calls + 1
    /\ protocol' = (protocol /\ last.op # "mapper_map")
    /\ UNCHANGED <<p_owner, pc, hwdec_devices, dwf, probed, mapper, ra, disp, compiled>>

MapperUnmap ==
    /\ pc = "ready" /\ mapper = "live"
    /\ LET r == mapper_unmap(Frame(p, tex, closes))
       IN  /\ p' = r.p
           /\ tex' = r.tex
           /\ closes' = r.closes
           /\ trace' = r.trace
           /\ last' = [LastNone EXCEPT !.op = "mapper_unmap"]
    /\ UNCHANGED <<p_owner, pc, hwdec_devices, dwf, probed, mapper, calls,
                   protocol, ra, disp, compiled>>

\* mapper_uninit: if (p_owner->interop_uninit) p_owner->interop_uninit(mapper)
MapperUninit ==
    /\ pc = "ready" /\ mapper = "live"
    /\ mapper' = "freed"
    /\ trace' = IF p_owner.interop_init THEN <<Ev("interop_uninit", 0)>> ELSE <<>>
    /\ last' = [LastNone EXCEPT !.op = "mapper_uninit"]
    /\ UNCHANGED <<p_owner, pc, hwdec_devices, dwf, probed, p, tex, closes,
                   calls, protocol, ra, disp, compiled>>

\* device contexts a successful init leaves: with and without a legacy map
\* function installed by the interop backend
ReadyOwners ==
    {[OwnerZero EXCEPT !.interop_init = TRUE, !.interop_map = TRUE,
                       !.interop_unmap = TRUE, !.interop_map_legacy = lg,
                       !.interop = "vaapi_gl_init", !.display = "x11", !.ctx = "ok",
                       !.formats = <<"IMGFMT_NV12", IMGFMT_NONE>>] :
        lg \in BOOLEAN}

Init ==
    /\ p_owner \in ReadyOwners
    /\ pc = "ready"
    /\ hwdec_devices = TRUE
    /\ dwf = DwfZero /\ probed = <<>>
    /\ mapper = "none" /\ p = PrivZero /\ tex = NoTex
    /\ closes = <<>> /\ calls = 0 /\ trace = <<>> /\ last = LastNone
    /\ protocol = TRUE
    /\ ra = RaNone /\ disp = DispNone
    /\ compiled = {"vaapi_gl_init"}

Next == MapperInit \/ MapperMap \/ MapperUnmap \/ MapperUninit

\* the mapping session: mapper_init, then any sequence of map and unmap calls
Spec == Init /\ [][Next]_vars

\* ------------------------------------------------------ device init actions
\* what an interop initializer may do: fail, or install its functions, with
\* or without a legacy map function
InteropOutcomes == {[ret |-> FALSE, legacy |-> FALSE], [ret |-> TRUE, legacy |-> FALSE],
                    [ret |-> TRUE, legacy |-> TRUE]}

\* the renderer's native resources and what opening a display on each yields
RaEnvs ==
    [have : SUBSET {"x11", "wayland", "drm"},
     x11 : BOOLEAN, wl : BOOLEAN, drm_params : {NULL, "render_fd<0", "ok"},
     open : [{"x11", "wayland", "drm"} -> BOOLEAN]]

\* the reports of an operation kept from a probing run: log messages and
\* consultations of the supported-format list
ReportOps ==
    {"check_fmt", "MP_FATAL:mapping failed", "MP_FATAL:unsupported VA image format",
     "MSGL_V:vaExportSurfaceHandle", "MSGL_ERR:vaExportSurfaceHandle",
     "MSGL_ERR:vaSyncSurface", "MSGL_ERR:vaDeriveImage",
     "MSGL_ERR:vaAcquireBufferHandle"}
Reports(t) == SelectSeq(t, LAMBDA e : e.op \in ReportOps)

InitReturn(ret) == [LastNone EXCEPT !.op = "init", !.ret = ret]
InitStage(stage) == [LastNone EXCEPT !.op = stage]
MapperVars == <<mapper, p, tex, closes, calls, protocol>>

\* init(): select the interop backend
InitInterop ==
    /\ pc = "init"
    /\ \E out \in [{"vaapi_gl_init", "vaapi_vk_init"} -> InteropOutcomes] :
         LET r == interop_loop(interop_inits(compiled), 1, out,
                               [o |-> p_owner, trace |-> <<>>, ok |-> FALSE])
         IN  /\ p_owner' = r.o
             /\ trace' = r.trace
             /\ pc' = IF interop_missing(r.o) THEN "failed" ELSE "display"
             /\ last' = IF interop_missing(r.o) THEN InitReturn(-1)
                        ELSE InitStage("interop")
    /\ UNCHANGED <<hwdec_devices, dwf, probed, MapperVars, ra, disp, compiled>>

\* init(): p->display = create_native_va_display(hw->ra, hw->log)
InitDisplay ==
    /\ pc = "display"
    /\ \E env \in RaEnvs :
         LET r == create_native_va_display(env)
         IN  /\ p_owner' = [p_owner EXCEPT !.display = r.display]
             /\ trace' = [k \in DOMAIN r.tried |-> Ev(r.tried[k], 0)]
             /\ pc' = IF r.display = NULL THEN "failed" ELSE "ctx"
             /\ last' = IF r.display = NULL THEN InitReturn(-1)
                        ELSE InitStage("display")
    /\ UNCHANGED <<hwdec_devices, dwf, probed, MapperVars, ra, disp, compiled>>

\* init(): va_initialize, the av_device_ref test and the emulation test
InitCtx ==
    /\ pc = "ctx"
    /\ \E ctx \in {NULL, "rejected", "ok"}, probing \in BOOLEAN, emulated \in BOOLEAN :
         LET fails == ctx # "ok" \/ (probing /\ emulated)
         IN  /\ ctx # "ok" => (~probing /\ ~emulated)
             /\ p_owner' = [p_owner EXCEPT !.ctx = ctx]
             /\ trace' = <<Ev("va_initialize", 0)>>
                         \o (IF ctx = NULL THEN <<Ev("vaTerminate", 0)>> ELSE <<>>)
                         \o (IF ctx = "ok" /\ probing
                             THEN <<Ev("va_guess_if_emulated", IF emulated THEN 1 ELSE 0)>>
                             ELSE <<>>)
             /\ pc' = IF fails THEN "failed" ELSE "probe"
             /\ last' = IF fails THEN InitReturn(-1) ELSE InitStage("ctx")
    /\ UNCHANGED <<hwdec_devices, dwf, probed, MapperVars, ra, disp, compiled>>

\* determine_working_formats: set probing_formats and query the constraints
DwfBegin ==
    /\ pc = "probe"
    /\ \E null \in BOOLEAN, len \in 0..MaxCand :
         \E cand \in [1..len -> AvFmts] :
            /\ null => len = 0
            /\ dwf' = [fc_null |-> null, fc |-> cand, n |-> 0, formats |-> <<>>]
    /\ p_owner' = [p_owner EXCEPT !.probing_formats = TRUE]
    /\ probed' = <<>>
    /\ trace' = <<Ev("av_hwdevice_get_hwframe_constraints", 0)>>
    /\ pc' = "probe_loop"
    /\ last' = InitStage("determine_working_formats")
    /\ UNCHANGED <<hwdec_devices, MapperVars, ra, disp, compiled>>

\* what the driver and the backend may answer to the one map of a probe
\* session: the session is freed after it, so of the answers only those that
\* decide the result and the reports are enumerated
ProbeInputs ==
    {in \in MapInputs :
        /\ in.num_objects = 1
        /\ in.desc_fourcc = VA_FOURCC_NV12 /\ in.image_fourcc = VA_FOURCC_NV12
        /\ in.raw = [i \in 0..2 |-> i + 1]}
NoAnswers == [fmt |-> IMGFMT_NONE, desc_known |-> TRUE, interop_init_ok |-> TRUE]
NoMapAnswers ==
    CHOOSE in \in ProbeInputs :
        in.export = VA_STATUS_ERROR_UNIMPLEMENTED /\ ~in.derive /\ in.sync

\* determine_working_formats: one candidate of the loop
ProbeCandidate ==
    /\ pc = "probe_loop" /\ ~dwf.fc_null /\ dwf.n < Len(dwf.fc)
    /\ \E alloc \in AllocSteps \cup {"ok"} :
         \E ii \in {i \in InitInputs : i.fmt = IMGFMT_NONE
                                        /\ (alloc # "ok" => i = NoAnswers)} :
            \E in \in {i \in ProbeInputs :
                          /\ Asked(i, PrivZero, p_owner)
                          /\ (alloc # "ok" \/ ii # NoAnswers) => i = NoMapAnswers} :
               LET r == probe_candidate(dwf, p_owner, alloc, ii, in)
               IN  /\ dwf' = r.d
                   /\ probed' = Append(probed, [fmt |-> dwf.fc[dwf.n + 1],
                                               alloc |-> r.alloc, ok |-> r.ok])
                   /\ trace' = Reports(r.trace)
    /\ last' = InitStage("try_format")
    /\ UNCHANGED <<p_owner, pc, hwdec_devices, MapperVars, ra, disp, compiled>>

\* determine_working_formats, "done:": terminate the list, publish it, leave
\* probing mode
DwfDone ==
    /\ pc = "probe_loop" /\ (dwf.fc_null \/ dwf.n >= Len(dwf.fc))
    /\ p_owner' = [p_owner EXCEPT !.formats = Append(dwf.formats, IMGFMT_NONE),
                                  !.probing_formats = FALSE]
    /\ trace' = IF dwf.fc_null THEN <<Ev("MP_WARN:no frame constraints", 0)>> ELSE <<>>
    /\ pc' = "check"
    /\ last' = InitStage("determine_working_formats_done")
    /\ UNCHANGED <<hwdec_devices, dwf, probed, MapperVars, ra, disp, compiled>>

\* init(): fail without a working format, else register the device
InitFinish ==
    /\ pc = "check"
    /\ IF formats_missing(p_owner)
       THEN /\ pc' = "failed" /\ last' = InitReturn(-1)
            /\ trace' = <<>>
            /\ UNCHANGED hwdec_devices
       ELSE /\ pc' = "ready" /\ last' = InitReturn(0)
            /\ trace' = <<Ev("hwdec_devices_add", 0)>>
            /\ hwdec_devices' = TRUE
    \* determine_working_formats has returned: its locals are gone
    /\ dwf' = DwfZero /\ probed' = <<>>
    /\ UNCHANGED <<p_owner, MapperVars, ra, disp, compiled>>

\* uninit(): remove the device if there is a context, destroy the context
Uninit ==
    /\ pc \in {"ready", "failed"} /\ mapper # "live"
    /\ hwdec_devices' = IF p_owner.ctx # NULL THEN FALSE ELSE hwdec_devices
    /\ p_owner' = [p_owner EXCEPT !.ctx = NULL]
    /\ trace' = (IF p_owner.ctx # NULL THEN <<Ev("hwdec_devices_remove", 0)>> ELSE <<>>)
                \o <<Ev("va_destroy", 0)>>
    /\ pc' = "uninit"
    /\ last' = InitStage("uninit")
    /\ UNCHANGED <<dwf, probed, MapperVars, ra, disp, compiled>>

InitDevice ==
    /\ p_owner = OwnerZero
    /\ pc = "init"
    /\ hwdec_devices = FALSE
    /\ dwf = DwfZero /\ probed = <<>>
    /\ mapper = "none" /\ p = PrivZero /\ tex = NoTex
    /\ closes = <<>> /\ calls = 0 /\ trace = <<>> /\ last = LastNone
    /\ protocol = TRUE
    /\ ra = RaNone /\ disp = DispNone
    /\ compiled \in SUBSET {"vaapi_gl_init", "vaapi_vk_init"}

\* the first mapper_map of the device's mapping session
MapperMapFirst == calls = 0 /\ MapperMap

NextDevice ==
    \/ InitInterop \/ InitDisplay \/ InitCtx
    \/ DwfBegin \/ ProbeCandidate \/ DwfDone
    \/ InitFinish \/ MapperInit \/ MapperMapFirst \/ MapperUnmap
    \/ MapperUninit \/ Uninit

\* the device: init() with its format probing, then a mapping session being
\* created, mapped once, unmapped and freed, then uninit()
SpecInit == InitDevice /\ [][NextDevice]_vars

\* ------------------------------------------------- display acquisition alone
CreateDisplay ==
    /\ pc = "display" /\ ~disp.done
    /\ LET r == create_native_va_display(ra)
       IN  disp' = [display |-> r.display, tried |-> r.tried, done |-> TRUE]
    /\ UNCHANGED <<p_owner, pc, hwdec_devices, dwf, probed, MapperVars, trace,
                   last, ra, compiled>>

InitDisplayOnly ==
    /\ p_owner = OwnerZero
    /\ pc = "display"
    /\ hwdec_devices = FALSE
    /\ dwf = DwfZero /\ probed = <<>>
    /\ mapper = "none" /\ p = PrivZero /\ tex = NoTex
    /\ closes = <<>> /\ calls = 0 /\ trace = <<>> /\ last = LastNone
    /\ protocol = TRUE
    /\ ra \in RaEnvs /\ disp = DispNone
    /\ compiled = {"vaapi_gl_init"}

\* create_native_va_display applied to every set of native resources
SpecDisplay == InitDisplayOnly /\ [][CreateDisplay]_vars

\* ------------------------------------------------------------ properties
Range(f) == {f[i] : i \in DOMAIN f}
Unmapped(priv) ==
    /\ ~priv.surface_acquired /\ ~priv.buffer_acquired
    /\ priv.current_image.image_id = VA_INVALID_ID
MapFailed == last.op = "mapper_map" /\ last.ret < 0
MapSucceeded == last.op = "mapper_map" /\ last.ret = 0
Swapped12(t) == [i \in 0..2 |-> IF i = 1 THEN t[2] ELSE IF i = 2 THEN t[1] ELSE t[i]]

\* C1: after any mapper_map call that returns failure, surface_acquired and
\* buffer_acquired are both false.
C1_FailedMapHoldsNothing ==
    MapFailed => (~p.surface_acquired /\ ~p.buffer_acquired)

\* C2: while every map is preceded by an unmap (or is the first call), each
\* exported fd has been closed exactly once, except the fds of the descriptor
\* the session currently holds acquired, which are still open; none has been
\* closed twice and none is open after an unmap.
C2_ExportedFdsClosedOnce ==
    protocol =>
        /\ \A fd \in DOMAIN closes :
              closes[fd] = IF p.surface_acquired /\ fd \in Range(p.desc.objects)
                           THEN 0 ELSE 1
        /\ last.op = "mapper_unmap" => \A fd \in DOMAIN closes : closes[fd] = 1

\* C2 witness: two exports were made; the fds of one were closed inside
\* mapper_map after the import failed, the others by the unmap just made.
C2_Witness ==
    /\ protocol /\ last.op = "mapper_unmap" /\ calls = 2
    /\ "close" \in Ops(trace)
    /\ Len(closes) > Len(p.desc.objects)
    /\ Len(p.desc.objects) = 2

\* C3: mapper_unmap on an unmapped session closes no fd, releases no buffer
\* handle, destroys no image and leaves the session unchanged; and an unmap
\* right after an unmap changes nothing.
C3_UnmapOfUnmappedIsNoOp ==
    [][/\ (last'.op = "mapper_unmap" /\ Unmapped(p)) =>
            /\ p' = p /\ closes' = closes
            /\ Ops(trace') = {"interop_unmap"}
       /\ (last.op = "mapper_unmap" /\ last'.op = "mapper_unmap") =>
            (p' = p /\ tex' = tex /\ closes' = closes)]_vars

\* C3 witness: after at least one map, an unmap that did nothing but call the
\* interop backend's unmap.
C3_Witness ==
    /\ last.op = "mapper_unmap" /\ calls > 0
    /\ Ops(trace) = {"interop_unmap"}
    /\ Len(closes) > 0

\* C4: esh_not_implemented, once true, stays true, and no operation made while
\* it is true calls vaExportSurfaceHandle; a map in which the export reported
\* "unimplemented" and the legacy import succeeded succeeds by the legacy path.
C4_ExportDisabledIsSticky ==
    /\ [][p.esh_not_implemented =>
            /\ p'.esh_not_implemented
            /\ "vaExportSurfaceHandle" \notin Ops(trace')]_vars
    /\ [](( /\ last.op = "mapper_map"
            /\ p.esh_not_implemented
            /\ "vaExportSurfaceHandle" \in Ops(trace)
            /\ Ev("interop_map_legacy", 1) \in Range(trace))
          => (last.ret = 0 /\ last.path = "legacy"))

\* C4 witness: frame 2 mapped by the legacy path, without an export call,
\* after frame 1 found the export unimplemented.
C4_Witness ==
    /\ MapSucceeded /\ calls = 2 /\ p.esh_not_implemented
    /\ last.path = "legacy"
    /\ "vaExportSurfaceHandle" \notin Ops(trace)

\* C7: after a successful map, tex[1] and tex[2] are exchanged once with
\* respect to the order the interop backend produced exactly when the tag of
\* the path that succeeded (p->desc.fourcc for the export path, the derived
\* image's fourcc for the legacy path) is YV12; otherwise the order is as
\* produced.
C7_Yv12PlanesSwappedOnce ==
    MapSucceeded =>
        LET tag == IF last.path = "export" THEN p.desc.fourcc
                   ELSE p.current_image.fourcc
        IN  /\ last.path \in {"export", "legacy"}
            /\ tex = IF tag = VA_FOURCC_YV12 THEN Swapped12(last.raw) ELSE last.raw

\* C7 witness: the export path was tried and its import failed, then the
\* legacy path mapped a YV12 image and the planes are swapped.
C7_Witness ==
    /\ MapSucceeded /\ last.path = "legacy"
    /\ Ev("interop_map", 0) \in Range(trace)
    /\ p.current_image.fourcc = VA_FOURCC_YV12
    /\ p.desc.fourcc = VA_FOURCC_NV12
    /\ tex = Swapped12(last.raw) /\ tex # last.raw

\* C8: while no map is issued without an intervening unmap, surface_acquired
\* and buffer_acquired are never both true; after a successful map exactly one
\* is true (surface_acquired on the export path, buffer_acquired on the legacy
\* path); after unmap both are false and the image id is invalid.
C8_AcquisitionFlagsExclusive ==
    protocol =>
        /\ ~(p.surface_acquired /\ p.buffer_acquired)
        /\ (MapSucceeded /\ last.path = "export") =>
              (p.surface_acquired /\ ~p.buffer_acquired)
        /\ (MapSucceeded /\ last.path = "legacy") =>
              (p.buffer_acquired /\ ~p.surface_acquired)
        /\ last.op = "mapper_unmap" => Unmapped(p)

\* C8 witness: the second frame, mapped by the legacy path after an unmap.
C8_Witness ==
    /\ protocol /\ MapSucceeded /\ calls = 2 /\ last.path = "legacy"
    /\ p.buffer_acquired /\ ~p.surface_acquired

\* C5: init returns success only with a supported-format list that holds a
\* real entry, and the device is in the registry only after such an init; when
\* probing leaves only the sentinel (also when the constraints could not be
\* queried) init fails and the device is not registered.
NoFormat(o) == o.formats = <<>> \/ o.formats = <<IMGFMT_NONE>>
C5_NoFormatNoDevice ==
    /\ pc = "ready" => (~NoFormat(p_owner) /\ p_owner.formats[1] # IMGFMT_NONE)
    /\ hwdec_devices => pc = "ready"
    /\ (pc \notin {"check", "ready"} /\ p_owner.formats = <<IMGFMT_NONE>>) =>
          (pc \in {"failed", "uninit"} /\ ~hwdec_devices)
    /\ pc = "failed" => (last.op = "init" /\ last.ret = -1)

\* C5 witness: the device context was initialized, probing ended with the
\* sentinel alone, init failed and nothing is registered.
C5_Witness ==
    /\ pc = "failed" /\ p_owner.ctx = "ok"
    /\ p_owner.formats = <<IMGFMT_NONE>>
    /\ ~hwdec_devices /\ last.ret = -1

\* C6: when determine_working_formats returns, the list is, in the order of
\* the driver's candidates, the subformat of every candidate whose test
\* surface was allocated and whose try_format succeeded, followed by the
\* sentinel; every candidate was tried.
RECURSIVE Survivors(_)
Survivors(log) ==
    IF log = <<>>
    THEN <<>>
    ELSE (IF Head(log).alloc /\ Head(log).ok
          THEN <<pixfmt2imgfmt(Head(log).fmt)>>
          ELSE <<>>) \o Survivors(Tail(log))

C6_ListIsWhatProbingFound ==
    pc = "check" =>
        /\ p_owner.formats = Survivors(probed) \o <<IMGFMT_NONE>>
        /\ Len(probed) = Len(dwf.fc)
        /\ \A k \in DOMAIN probed : probed[k].fmt = dwf.fc[k]
        /\ \A k \in DOMAIN probed : probed[k].ok => probed[k].alloc

\* C6 witness: the first candidate's surface could not be allocated, the
\* second candidate was still tried and is the only entry.
C6_Witness ==
    /\ pc = "check" /\ Len(probed) = 2
    /\ ~probed[1].alloc /\ probed[2].alloc /\ probed[2].ok
    /\ p_owner.formats = <<pixfmt2imgfmt(dwf.fc[2]), IMGFMT_NONE>>

\* C9: create_native_va_display returns the display of the first compiled-in
\* provider, in the order X11, Wayland, DRM, whose resource is present and
\* whose open yields a display; it tries the providers before it and none
\* after it; it returns NULL, having tried all, when there is none.
Usable(env, name) ==
    CASE name = "x11" -> env.x11 /\ env.open["x11"]
      [] name = "wayland" -> env.wl /\ env.open["wayland"]
      [] OTHER -> env.drm_params = "ok" /\ env.open["drm"]

C9_FirstUsableProvider ==
    disp.done =>
        LET cbs == SelectSeq(<<"x11", "wayland", "drm">>, LAMBDA nm : nm \in ra.have)
            good == {k \in DOMAIN cbs : Usable(ra, cbs[k])}
        IN  IF good = {}
            THEN disp.display = NULL /\ disp.tried = cbs
            ELSE LET first == CHOOSE k \in good : \A j \in good : k <= j
                 IN  disp.display = cbs[first] /\ disp.tried = SubSeq(cbs, 1, first)

\* C9 witness: only a Wayland resource exists; X11 was tried first and gave
\* nothing, the Wayland display is returned and DRM was not tried.
C9_Witness ==
    /\ disp.done /\ ra.have = {"x11", "wayland", "drm"}
    /\ ~ra.x11 /\ ra.wl /\ ra.drm_params = NULL
    /\ disp.display = "wayland" /\ disp.tried = <<"x11", "wayland">>

\* C10: outside probing mapper_init fails for a destination format that is not
\* an entry of the supported-format list and passes the format check for one
\* that is; check_fmt is not called while probing_formats is true.
Members(o) == Range(o.formats) \ {IMGFMT_NONE}
C10_SupportedIsMembership ==
    /\ last.op = "mapper_init" =>
          /\ last.fmt \notin Members(p_owner) => last.ret = -1
          /\ last.ret = 0 => "check_fmt" \in Ops(trace)
          /\ (last.fmt \in Members(p_owner) /\ "check_fmt" \in Ops(trace)) =>
                (last.ret = 0 /\ "MP_FATAL:unsupported VA image format" \notin Ops(trace))
    /\ p_owner.probing_formats => "check_fmt" \notin Ops(trace)

\* C10 witness: a format the probing did not record is refused by the check.
C10_Witness ==
    /\ last.op = "mapper_init" /\ last.ret = -1 /\ last.fmt = "IMGFMT_NV12"
    /\ p_owner.formats = <<"IMGFMT_420P", IMGFMT_NONE>>
    /\ "MP_FATAL:unsupported VA image format" \in Ops(trace)

\* C11: mapper_unmap calls the interop unmap first; then, only if
\* surface_acquired, closes every exported fd and clears the flag; then, only
\* if buffer_acquired, releases the buffer handle and clears the flag; then,
\* only if the image id is valid, destroys the image and invalidates the id.
UnmapOrder(priv) ==
    <<Ev("interop_unmap", 0)>>
    \o (IF priv.surface_acquired
        THEN [k \in DOMAIN priv.desc.objects |-> Ev("close", priv.desc.objects[k])]
        ELSE <<>>)
    \o (IF priv.buffer_acquired
        THEN <<Ev("vaReleaseBufferHandle", priv.current_image.buf)>>
        ELSE <<>>)
    \o (IF priv.current_image.image_id # VA_INVALID_ID
        THEN <<Ev("vaDestroyImage", priv.current_image.image_id)>>
        ELSE <<>>)

C11_UnmapOrder ==
    [][last'.op = "mapper_unmap" =>
          /\ trace' = UnmapOrder(p)
          /\ trace'[1].op = "interop_unmap"
          /\ Unmapped(p')]_vars

\* C11 witness: an unmap that followed the interop unmap by the release of the
\* buffer handle and the destruction of the image.
C11_Witness ==
    /\ last.op = "mapper_unmap" /\ Len(trace) = 3
    /\ trace[1].op = "interop_unmap"
    /\ trace[2].op = "vaReleaseBufferHandle"
    /\ trace[3].op = "vaDestroyImage"
    /\ Unmapped(p)

\* C12: when a step of the legacy path fails inside mapper_map (derive image,
\* acquire buffer handle or the legacy import), mapper_map has done the full
\* unmap when it returns failure: the interop unmap was invoked, the buffer
\* handle is released and the derived image is destroyed.
LegacyStepFailed == MapFailed /\ "vaDeriveImage" \in Ops(trace)
C12_LegacyFailureUnmaps ==
    LegacyStepFailed =>
        /\ "interop_unmap" \in Ops(trace)
        /\ ~p.buffer_acquired
        /\ p.current_image.image_id = VA_INVALID_ID

\* C13: when the export path yields no mapping (skipped, export failed or
\* import failed) and no legacy map function is installed, mapper_map calls
\* mapper_unmap on what is there and returns failure; it calls neither
\* vaDeriveImage nor vaAcquireBufferHandle.
C13_NoLegacyUnmapsAndFails ==
    (last.op = "mapper_map" /\ ~p_owner.interop_map_legacy /\ last.path # "export") =>
        /\ last.ret = -1
        /\ "interop_unmap" \in Ops(trace)
        /\ Ops(trace) \cap {"vaDeriveImage", "vaAcquireBufferHandle",
                            "interop_map_legacy"} = {}
        /\ ~p.surface_acquired /\ ~p.buffer_acquired
        /\ tex = NoTex

\* C13 witness: the import of an exported surface failed, no legacy function
\* exists, the fds were closed and the session was unmapped.
C13_Witness ==
    /\ last.op = "mapper_map" /\ last.ret = -1 /\ ~p_owner.interop_map_legacy
    /\ "interop_map" \in Ops(trace) /\ "close" \in Ops(trace)
    /\ "interop_unmap" \in Ops(trace)
    /\ "vaDeriveImage" \notin Ops(trace)

\* C14: a mapper_map whose export fails with a status other than
\* 'unimplemented', or whose import of the exported surface fails, goes on to
\* the legacy path in the same call and leaves esh_not_implemented as it was;
\* the flag becomes true only by an export that reported 'unimplemented', and
\* a call made with the flag clear attempts the export.
ExportReports(t) ==
    {t[i].arg : i \in {k \in DOMAIN t : t[k].op \in {"MSGL_ERR:vaExportSurfaceHandle",
                                                     "MSGL_V:vaExportSurfaceHandle"}}}
ImportFailed(t) == \E i \in DOMAIN t : t[i].op = "interop_map" /\ t[i].arg = 0
C14_OnlyUnimplementedIsSticky ==
    [][last'.op = "mapper_map" =>
          /\ p'.esh_not_implemented =
                (p.esh_not_implemented
                 \/ VA_STATUS_ERROR_UNIMPLEMENTED \in ExportReports(trace'))
          /\ ~p.esh_not_implemented => "vaExportSurfaceHandle" \in Ops(trace')
          /\ (VA_STATUS_ERROR_OPERATION_FAILED \in ExportReports(trace')
              \/ ImportFailed(trace')) =>
                /\ p'.esh_not_implemented = p.esh_not_implemented
                /\ p_owner.interop_map_legacy => "vaDeriveImage" \in Ops(trace')
                /\ ~p_owner.interop_map_legacy => "interop_unmap" \in Ops(trace')]_vars

\* C14 witness: the second map of a session exported again, the export failed
\* with another status than 'unimplemented', the legacy path made the mapping
\* and the flag is clear.
C14_Witness ==
    /\ last.op = "mapper_map" /\ calls = 2 /\ closes # <<>>
    /\ ExportReports(trace) = {VA_STATUS_ERROR_OPERATION_FAILED}
    /\ last.ret = 0 /\ last.path = "legacy"
    /\ ~p.esh_not_implemented

\* C15: init tries the compiled-in interop initializers in the order OpenGL,
\* Vulkan; the first that installs a map and an unmap function wins and none
\* is tried after it; if none does, init fails; backend selection succeeds
\* exactly when an initializer of the list installs both.
InteropStageDone == pc = "display" \/ (pc = "failed" /\ p_owner.display = NULL
                                       /\ interop_missing(p_owner))
C15_FirstInteropWins ==
    InteropStageDone =>
        LET inits == SelectSeq(<<"vaapi_gl_init", "vaapi_vk_init">>,
                               LAMBDA nm : nm \in compiled)
            won == {k \in DOMAIN trace : trace[k].arg = 1}
        IN  /\ Len(trace) <= Len(inits)
            /\ \A k \in DOMAIN trace : trace[k].op = inits[k]
            /\ \A k \in won : k = Len(trace)
            /\ won = {} => (Len(trace) = Len(inits) /\ pc = "failed"
                            /\ last = InitReturn(-1))
            /\ won # {} => /\ pc = "display"
                           /\ p_owner.interop = trace[Len(trace)].op
                           /\ p_owner.interop_map /\ p_owner.interop_unmap

\* C15 witness: both initializers are compiled in, OpenGL failed and Vulkan
\* installed its functions.
C15_Witness ==
    /\ pc = "display" /\ compiled = {"vaapi_gl_init", "vaapi_vk_init"}
    /\ trace = <<Ev("vaapi_gl_init", 0), Ev("vaapi_vk_init", 1)>>
    /\ p_owner.interop = "vaapi_vk_init"

\* C16: the supported-format list built by determine_working_formats never
\* holds the same format identifier twice, whatever candidates the driver
\* reports and whichever probes succeed.
NoDuplicates(f) == \A i, j \in DOMAIN f : i # j => f[i] # f[j]
C16_NoDuplicateFormats ==
    NoDuplicates(dwf.formats) /\ NoDuplicates(p_owner.formats)

\* C17: in the export path a failed vaSyncSurface is logged and is not fatal:
\* the map goes on to the renderer import as after a successful sync, and the
\* status logged is the one the sync call returned.
SyncFailed(t) == \E i \in DOMAIN t : t[i].op = "vaSyncSurface" /\ t[i].arg = 0
C17_FailedSyncIsLogged ==
    (last.op = "mapper_map" /\ SyncFailed(trace)) =>
        /\ "MSGL_ERR:vaSyncSurface" \in Ops(trace)
        /\ "interop_map" \in Ops(trace)

\* C18: a failing mapper_map reports the failure as fatal exactly when the
\* owner is not probing formats; probing_formats is true only inside
\* determine_working_formats and false again on every way out of it, so every
\* steady-state map failure is reported as fatal.
ProbeMapFailed ==
    /\ last.op = "try_format" /\ probed # <<>>
    /\ probed[Len(probed)].alloc /\ ~probed[Len(probed)].ok
    /\ Ops(trace) \cap {"MSGL_V:vaExportSurfaceHandle", "MSGL_ERR:vaDeriveImage",
                        "MSGL_ERR:vaAcquireBufferHandle"} # {}
C18_FatalUnlessProbing ==
    /\ p_owner.probing_formats <=> pc = "probe_loop"
    /\ p_owner.probing_formats => "MP_FATAL:mapping failed" \notin Ops(trace)
    /\ last.op = "mapper_map" =>
          /\ ~p_owner.probing_formats
          /\ "MP_FATAL:mapping failed" \in Ops(trace) <=> last.ret < 0

\* C18 witness: a probe map failed after a failed export and a failed legacy
\* step, and nothing fatal was reported.
C18_Witness ==
    /\ ProbeMapFailed /\ p_owner.probing_formats
    /\ "MSGL_V:vaExportSurfaceHandle" \in Ops(trace)
    /\ "MSGL_ERR:vaDeriveImage" \in Ops(trace)
    /\ "MP_FATAL:mapping failed" \notin Ops(trace)

\* C19 (as claimed): init runs display acquisition, then device-context
\* initialization, then interop backend selection, then format probing; no
\* stage starts before the previous one succeeded and the device is registered
\* only after all four.
InteropTried == Ops(trace) \cap {"vaapi_gl_init", "vaapi_vk_init"} # {}
DisplayTried == Ops(trace) \cap {"x11", "wayland", "drm"} # {}
InteropSelected == p_owner.interop_map /\ p_owner.interop_unmap
DisplayAcquired == p_owner.display # NULL
CtxInitialized == p_owner.ctx = "ok"
ProbingStarted == pc \in {"probe_loop", "check", "ready"} \/ p_owner.probing_formats
AllStagesDone ==
    /\ DisplayAcquired /\ CtxInitialized /\ InteropSelected
    /\ p_owner.formats # <<>> /\ p_owner.formats[1] # IMGFMT_NONE
C19_StagesInClaimedOrder ==
    /\ "va_initialize" \in Ops(trace) => DisplayAcquired
    /\ (InteropTried \/ InteropSelected) => (DisplayAcquired /\ p_owner.ctx # NULL)
    /\ ProbingStarted => (DisplayAcquired /\ CtxInitialized /\ InteropSelected)
    /\ hwdec_devices => AllStagesDone

\* C19 (amended): init runs interop backend selection, then display
\* acquisition, then device-context initialization, then format probing; no
\* stage starts before the previous one succeeded and the device is registered
\* only after all four.
C19_StagesInCodeOrder ==
    /\ (DisplayTried \/ DisplayAcquired) => InteropSelected
    /\ "va_initialize" \in Ops(trace) => (InteropSelected /\ DisplayAcquired)
    /\ ProbingStarted => (InteropSelected /\ DisplayAcquired /\ CtxInitialized)
    /\ hwdec_devices => (AllStagesDone /\ pc = "ready")
    /\ (pc = "ready" /\ last = InitReturn(0)) => hwdec_devices

\* C19 witness: the interop backend is selected and no display has been
\* acquired yet.
C19_Witness ==
    /\ pc = "display" /\ InteropTried /\ InteropSelected
    /\ ~DisplayAcquired /\ p_owner.ctx = NULL /\ ~hwdec_devices

\* C20: the exported fds are never closed while bindings made by the interop
\* map may still reference them: every close of an exported fd, in
\* mapper_unmap and in the import-failure branch of mapper_map, comes after a
\* call of the interop unmap that was made after the latest interop map call.
UnmappedBefore(t, i) ==
    \E j \in 1..(i - 1) :
        /\ t[j].op = "interop_unmap"
        /\ \A k \in (j + 1)..(i - 1) : t[k].op # "interop_map"
C20_NoCloseBeforeInteropUnmap ==
    last.op \in {"mapper_map", "mapper_unmap"} =>
        \A i \in DOMAIN trace : trace[i].op = "close" => UnmappedBefore(trace, i)

\* C20 (amended): every close of an exported fd in mapper_unmap comes after
\* the interop unmap call of that mapper_unmap; in a mapper_map called on an
\* unmapped session the fds are closed only in the import-failure branch,
\* directly after the failed interop map call and before any interop unmap.
ClosedAfterFailedImport(t, i) ==
    \E j \in 1..(i - 1) :
        /\ t[j].op = "interop_map" /\ t[j].arg = 0
        /\ \A k \in (j + 1)..(i - 1) : t[k].op = "close"
C20_CloseAfterUnmapOrFailedImport ==
    /\ last.op = "mapper_unmap" =>
          \A i \in DOMAIN trace : trace[i].op = "close" => UnmappedBefore(trace, i)
    /\ (last.op = "mapper_map" /\ protocol) =>
          \A i \in DOMAIN trace : trace[i].op = "close" =>
              (ClosedAfterFailedImport(trace, i) /\ ~UnmappedBefore(trace, i))

\* C20 witness: the import of the exported surface failed, its fds were closed
\* at once with no interop unmap, and the legacy path made the mapping.
C20_Witness ==
    /\ last.op = "mapper_map" /\ protocol /\ last.ret = 0 /\ last.path = "legacy"
    /\ "close" \in Ops(trace) /\ ImportFailed(trace)
    /\ "interop_unmap" \notin Ops(trace)

====
